---------------------------- MODULE Spec2Model ----------------------------
(***************************************************************************)
(* SignalHandler (src/src/signal_handler.cpp): a worker thread waits with  *)
(* sigwaitinfo() on the signals of signal_map and hands each one to a      *)
(* callback; start() spawns the worker, stop() wakes and joins it.        *)
(*                                                                         *)
(* Threads: "main" (the owning thread, calls start/stop/setCallback/       *)
(* block_signals) and "worker" (runs run(), and runs stop() too when the   *)
(* callback calls it).  Every shared-memory access of stop() and run() is  *)
(* a step of its own, so all interleavings of the two are explored.        *)
(***************************************************************************)
EXTENDS Integers, Sequences, FiniteSets, TLC

\* ------------------------------------------------------------ bounds ----
MaxDeliveries == 2   \* signals sent to the process from outside
MaxWaitFail   == 1   \* failing returns of sigwaitinfo()
MaxStartCalls == 2   \* calls of start()
MaxStopCalls  == 2   \* calls of stop() per thread
MaxBurst      == 3   \* signals sent from outside in a burst (SpecBurst)
MaxSignum     == 20  \* largest argument of signalToString() (SpecNames)
MaxNameCalls  == 2   \* calls of signalToString() (SpecNames)
MaxPrioCalls  == 2   \* calls of setPriority() (SpecPriority)
MaxFailRun    == 3   \* failing returns of sigwaitinfo() in a row (SpecWaitFail)

\* ------------------------------------------------- signal numbers -------
SIGHUP  == 1
SIGINT  == 2
SIGQUIT == 3
SIGILL  == 4
SIGABRT == 6
SIGBUS  == 7
SIGFPE  == 8
SIGUSR1 == 10
SIGSEGV == 11
SIGTERM == 15

\* the value sigwaitinfo() returns when it fails
WaitError == 0 - 1

\* The registry: signal number -> <<name, fatal>>.  The SIGUSR1 entry is
\* commented out in the source, so it is no key of the map.
signal_map ==
    (SIGINT  :> <<"SIGINT",  FALSE>>) @@
    (SIGTERM :> <<"SIGTERM", FALSE>>) @@
    (SIGQUIT :> <<"SIGQUIT", FALSE>>) @@
    (SIGHUP  :> <<"SIGHUP",  FALSE>>) @@
    (SIGSEGV :> <<"SIGSEGV", TRUE>>)  @@
    (SIGBUS  :> <<"SIGBUS",  TRUE>>)  @@
    (SIGFPE  :> <<"SIGFPE",  TRUE>>)  @@
    (SIGILL  :> <<"SIGILL",  TRUE>>)  @@
    (SIGABRT :> <<"SIGABRT", TRUE>>)

\* the initializer list of signal_map as it is written, in its order
signal_map_init ==
    << <<SIGINT,  "SIGINT",  FALSE>>, <<SIGTERM, "SIGTERM", FALSE>>,
       <<SIGQUIT, "SIGQUIT", FALSE>>, <<SIGHUP,  "SIGHUP",  FALSE>>,
       <<SIGSEGV, "SIGSEGV", TRUE>>,  <<SIGBUS,  "SIGBUS",  TRUE>>,
       <<SIGFPE,  "SIGFPE",  TRUE>>,  <<SIGILL,  "SIGILL",  TRUE>>,
       <<SIGABRT, "SIGABRT", TRUE>> >>

\* the set built by the sigemptyset/sigaddset loops over signal_map
MapSignals == DOMAIN signal_map

\* the signals sent from outside: one that the map flags non-fatal and one
\* that it flags fatal
EnvSignals == {SIGINT, SIGSEGV}

\* the signals sent from outside when the classification is exercised: every
\* signal of the map and the wake signal
AllSignals == MapSignals \cup {SIGUSR1}

\* signalToString that returns an empty name for a signal it does not find
signalToString_Empty(signum) ==
    IF signum \in DOMAIN signal_map THEN signal_map[signum][1] ELSE ""

\* auto it = signal_map.find(signum);
\* return it != signal_map.end() ? it->second.first : "UNKNOWN";
signalToString(signum) ==
    IF signum \in DOMAIN signal_map THEN signal_map[signum][1] ELSE "UNKNOWN"

\* the arguments signalToString() is called with: the error value of the
\* wait, 0 and the signal numbers up to MaxSignum
QuerySignals == WaitError..MaxSignum

\* --------------------------------------------------------- terminal -----
\* c_lflag of the termios of STDIN, as the set of the flags that are on
TermFlags == {"ECHOCTL", "ICANON"}
Uninit == {"uninit"}

\* ------------------------------------------------------- scheduling -----
\* the policy and priority a thread is created with, and the arguments the
\* host passes to setPriority()
DefaultSched == <<"SCHED_OTHER", 0>>
Policies     == {"SCHED_RR", "SCHED_FIFO"}
Priorities   == {10}

\* --------------------------------------------------------- callbacks ----
\* std::function<void(int,bool)>: empty, or one of the host's callables.
\* cbLog returns at once; cbStop calls stop() on the handler and returns.
NoCb == "none"
Callbacks == {"cbLog", "cbStop"}

\* the callback of the demonstration program, signal_handler()
DemoCb == "cbDemo"

\* setCallback() assigns the std::function with no lock.  NotWriting: no
\* assignment is under way.  Torn: what a read that overlaps one may yield
\* besides the old and the new value.
NotWriting == "-"
Torn == "torn"

Threads == {"main", "worker"}

\* the threads that may call stop(): the two above and a further thread of
\* the host ("aux"), created by the owner and so with the owner's signal mask
Callers == Threads \cup {"aux"}

\* const int num_workers = 4: the threads main() creates
num_workers == 4
DemoWorkers == 1..num_workers

\* cv_mutex: held by nobody, by demo worker i (the value i), or by the
\* callback
MutexFree == 0
MutexCb == num_workers + 1

VARIABLES
    proc,             \* "running", or how the process ended: "exited"
                      \*   (std::exit), "terminated" (std::terminate),
                      \*   "killed" (by a signal), "crashed"
    killSig,          \* the signal whose default action killed the process
    running,          \* std::atomic<bool> running
    stop_requested,   \* std::atomic<bool> stop_requested
    termios_saved,    \* bool termios_saved
    original_termios, \* termios original_termios
    signal_set,       \* sigset_t signal_set
    callback,         \* std::function callback
    cb_writing,       \* the value setCallback() is assigning, or NotWriting
    joinable,         \* worker_thread.joinable()
    tty,              \* settings of the terminal on STDIN
    stdin_tty,        \* whether STDIN is a terminal (tcgetattr succeeds)
    sigmask,          \* per thread: the blocked signals
    pending,          \* signals pending for the process
    w_pc,             \* position of the worker in run()
    w_sig,            \* int sig
    w_immediate,      \* bool immediate
    local_set,        \* sigset_t local_set
    w_cb,             \* the callable the worker is executing
    w_pending,        \* signals pending for the worker thread alone
    stop_pc,          \* per thread: position inside stop()
    \* history
    invocations,      \* callback invocations <<callable, signal, fatal>>
    stopRets,         \* stop() calls that returned: <<thread, result,
                      \*   start() calls made before>>
    stopCalls,        \* per thread: stop() calls begun
    startCalls,       \* start() calls
    spawnCount,       \* threads created by start()
    joinCount,        \* completed worker_thread.join()
    wakeSent,         \* pthread_kill() calls of stop()
    deliveries,       \* signals sent from outside
    waitFails,        \* failed sigwaitinfo() calls
    ttyAtStart,       \* the terminal settings just before the last start()
    dtor_pc,          \* position of the owner in ~SignalHandler()
    drops,            \* history: non-fatal signals dropped for want of a
                      \*   callback
    bs_ret,           \* history: what block_signals() returned to its caller
    bs_outcome,       \* history: what that call did
    q_sig,            \* the argument the host calls signalToString() with
    q_ret,            \* what the last call returned ("" before any call)
    q_prev,           \* what the call before it returned
    q_calls,          \* calls of signalToString()
    failRun,          \* history: failed sigwaitinfo() calls in a row
    sp_ret,           \* what the last setPriority() returned ("none" before)
    w_sched,          \* scheduling <<policy, priority>> of the worker thread
    spCalls,          \* calls of setPriority()
    \* the demonstration program (src/src/main.cpp)
    d_main,           \* position of main() once it has set up the handler
    d_w,              \* per demo worker: position in worker_thread()
    d_mutex,          \* owner of cv_mutex, or MutexFree
    d_stop,           \* the program's std::atomic<bool> stop_requested
    d_cb,             \* position inside the callback signal_handler()
    delivLog          \* history: the signals of a burst, each with the
                      \*   number of callback invocations begun when it was
                      \*   sent and whether one was in progress

vars == <<proc, killSig, running, stop_requested, termios_saved,
          original_termios, signal_set, callback, cb_writing, joinable,
          tty, stdin_tty, sigmask, pending, w_pc, w_sig, w_immediate, local_set, w_cb,
          w_pending, stop_pc, invocations, stopRets, stopCalls, startCalls, spawnCount,
          joinCount, wakeSent, deliveries, waitFails, ttyAtStart,
          dtor_pc, drops, delivLog, bs_ret, bs_outcome, q_sig, q_ret, q_prev,
          q_calls, failRun, sp_ret, w_sched, spCalls, d_main, d_w, d_mutex,
          d_stop, d_cb>>

shared   == <<running, stop_requested, termios_saved, original_termios,
              signal_set, callback, cb_writing, joinable>>
termv    == <<tty, stdin_tty>>
workerv  == <<w_pc, w_sig, w_immediate, local_set, w_cb>>
sigs     == <<sigmask, pending, w_pending>>
dead     == <<proc, killSig>>
history  == <<invocations, stopRets, stopCalls, startCalls, spawnCount,
              joinCount, wakeSent, deliveries, waitFails>>
queryv   == <<q_sig, q_ret, q_prev, q_calls>>
extra0   == <<ttyAtStart, dtor_pc, drops, delivLog, bs_ret, bs_outcome,
              queryv>>
prio     == <<sp_ret, w_sched, spCalls>>
demov    == <<d_main, d_w, d_mutex, d_stop, d_cb>>
extra    == <<extra0, failRun, prio, demov>>

\* the worker thread exists and has not finished
WorkerAlive == w_pc \notin {"none", "done"}

\* the owning thread is between two calls, on an object that is alive
MainIdle ==
    stop_pc["main"] = "idle" /\ cb_writing = NotWriting /\ dtor_pc = "none"

\* SignalHandler::SignalHandler()
InitHandler ==
    /\ proc = "running"
    /\ killSig = 0
    /\ running = FALSE
    /\ stop_requested = FALSE
    /\ termios_saved = FALSE
    /\ original_termios = Uninit
    /\ signal_set = {}
    /\ callback = NoCb
    /\ cb_writing = NotWriting
    /\ joinable = FALSE
    /\ stdin_tty \in BOOLEAN
    /\ tty \in (IF stdin_tty THEN SUBSET TermFlags ELSE {{}})
    /\ sigmask = [t \in Threads |-> {}]
    /\ pending = {}
    /\ w_pc = "none"
    /\ w_sig = 0
    /\ w_immediate = FALSE
    /\ local_set = {}
    /\ w_cb = NoCb
    /\ w_pending = {}
    /\ stop_pc = [t \in Callers |-> "idle"]
    /\ invocations = <<>>
    /\ stopRets = <<>>
    /\ stopCalls = [t \in Callers |-> 0]
    /\ startCalls = 0
    /\ spawnCount = 0
    /\ joinCount = 0
    /\ wakeSent = 0
    /\ deliveries = 0
    /\ waitFails = 0
    /\ ttyAtStart = tty
    /\ dtor_pc = "none"
    /\ drops = 0
    /\ delivLog = <<>>
    /\ bs_ret = "none"
    /\ bs_outcome = "none"
    /\ q_ret = ""
    /\ q_prev = ""
    /\ q_calls = 0
    /\ failRun = 0
    /\ sp_ret = "none"
    /\ w_sched = DefaultSched
    /\ spCalls = 0
    /\ d_main = "init"
    /\ d_w = [i \in DemoWorkers |-> "none"]
    /\ d_mutex = MutexFree
    /\ d_stop = FALSE
    /\ d_cb = "none"

\* the host makes no call of signalToString()
Init == InitHandler /\ q_sig = 0

\* the host is going to call signalToString(q_sig)
InitNames == InitHandler /\ q_sig \in QuerySignals

\* ------------------------------------------------ the owning thread -----
\* block_signals that blocks the signals flagged non-fatal only
block_signals_NonFatal ==
    /\ proc = "running"
    /\ MainIdle
    /\ sigmask' = [sigmask EXCEPT !["main"] =
                      @ \cup {sg \in MapSignals : ~signal_map[sg][2]}]
    /\ UNCHANGED <<dead, shared, termv, workerv, pending, w_pending, stop_pc,
                   history>>
    /\ UNCHANGED extra

\* block_signals(): SIG_BLOCK of the signals of signal_map in the caller
block_signals ==
    /\ proc = "running"
    /\ MainIdle
    /\ sigmask' = [sigmask EXCEPT !["main"] = @ \cup MapSignals]
    /\ UNCHANGED <<dead, shared, termv, workerv, pending, w_pending, stop_pc,
                   history>>
    /\ UNCHANGED extra

\* the sets of signals for which sigaddset() is taken to fail
AddFailures == {{}, {SIGSEGV}}

\* block_signals() with the results of its three library calls as inputs:
\* sigemptyset() succeeds (eOk) or the function returns at once; sigaddset()
\* fails for the signals of addFail and the loop goes on; pthread_sigmask()
\* succeeds (mOk) or blocks nothing.  The function is void: every path
\* returns nothing to the caller.
block_signals_lib(eOk, addFail, mOk) ==
    /\ proc = "running"
    /\ MainIdle
    /\ sigmask' = IF eOk /\ mOk
                    THEN [sigmask EXCEPT !["main"] = @ \cup (MapSignals \ addFail)]
                    ELSE sigmask
    /\ bs_outcome' = IF ~eOk \/ ~mOk THEN "failed"
                     ELSE IF addFail = {} THEN "ok" ELSE "partial"
    /\ bs_ret' = "void"
    /\ UNCHANGED <<dead, shared, termv, workerv, pending, w_pending, stop_pc,
                   history, ttyAtStart, dtor_pc, drops, delivLog, queryv, failRun, prio, demov>>

\* SignalHandler::setCallback(cb): callback = cb.  The assignment of a
\* std::function is no single access: it begins ...
setCallback(cb) ==
    /\ proc = "running"
    /\ MainIdle
    /\ cb # callback
    /\ cb_writing' = cb
    /\ UNCHANGED <<dead, running, stop_requested, termios_saved,
                   original_termios, signal_set, callback, joinable, termv,
                   workerv, sigs, stop_pc, history>>
    /\ UNCHANGED extra

\* ... and ends, and callback holds the new value
setCallbackDone ==
    /\ proc = "running"
    /\ cb_writing # NotWriting
    /\ callback' = cb_writing
    /\ cb_writing' = NotWriting
    /\ UNCHANGED <<dead, running, stop_requested, termios_saved,
                   original_termios, signal_set, joinable, termv, workerv,
                   sigs, stop_pc, history>>
    /\ UNCHANGED extra

\* start() that clears stop_requested as well
start_ResetsStop ==
    /\ proc = "running"
    /\ MainIdle
    /\ startCalls < MaxStartCalls
    /\ startCalls' = startCalls + 1
    /\ running' = TRUE
    /\ stop_requested' = FALSE
    /\ IF stdin_tty
         THEN /\ termios_saved' = TRUE
              /\ original_termios' = tty
              /\ tty' = tty \ {"ECHOCTL"}
         ELSE UNCHANGED <<termios_saved, original_termios, tty>>
    /\ signal_set' = MapSignals
    /\ IF joinable
         THEN /\ proc' = "terminated"
              /\ sigmask' = [sigmask EXCEPT !["main"] = @ \cup MapSignals]
              /\ UNCHANGED <<joinable, w_pc, spawnCount>>
         ELSE /\ proc' = proc
              /\ sigmask' = [t \in Threads |-> sigmask["main"] \cup MapSignals]
              /\ joinable' = TRUE
              /\ w_pc' = "spawned"
              /\ spawnCount' = spawnCount + 1
    /\ UNCHANGED <<killSig, callback, cb_writing, stdin_tty, pending,
                   w_pending, w_sig, w_immediate, local_set, w_cb, stop_pc,
                   invocations, stopRets, stopCalls, joinCount, wakeSent,
                   deliveries, waitFails>>
    /\ ttyAtStart' = tty
    /\ w_sched' = IF joinable THEN w_sched ELSE DefaultSched
    /\ UNCHANGED <<dtor_pc, drops, delivLog,
                   bs_ret, bs_outcome, queryv, failRun, sp_ret, spCalls,
                   demov>>

\* start() that clears every flag of c_lflag, not ECHOCTL alone
start_RawMode ==
    /\ proc = "running"
    /\ MainIdle
    /\ startCalls < MaxStartCalls
    /\ startCalls' = startCalls + 1
    /\ running' = TRUE
    /\ IF stdin_tty
         THEN /\ termios_saved' = TRUE
              /\ original_termios' = tty
              /\ tty' = {}
         ELSE UNCHANGED <<termios_saved, original_termios, tty>>
    /\ signal_set' = MapSignals
    /\ IF joinable
         THEN /\ proc' = "terminated"
              /\ sigmask' = [sigmask EXCEPT !["main"] = @ \cup MapSignals]
              /\ UNCHANGED <<joinable, w_pc, spawnCount>>
         ELSE /\ proc' = proc
              /\ sigmask' = [t \in Threads |-> sigmask["main"] \cup MapSignals]
              /\ joinable' = TRUE
              /\ w_pc' = "spawned"
              /\ spawnCount' = spawnCount + 1
    /\ UNCHANGED <<killSig, stop_requested, callback, cb_writing, stdin_tty, pending,
                   w_pending, w_sig, w_immediate, local_set, w_cb, stop_pc,
                   invocations, stopRets, stopCalls, joinCount, wakeSent,
                   deliveries, waitFails>>
    /\ ttyAtStart' = tty
    /\ w_sched' = IF joinable THEN w_sched ELSE DefaultSched
    /\ UNCHANGED <<dtor_pc, drops, delivLog,
                   bs_ret, bs_outcome, queryv, failRun, sp_ret, spCalls,
                   demov>>

\* start() that creates the thread before it blocks the signals: the
\* worker gets the mask the caller had on entry
start_SpawnFirst ==
    /\ proc = "running"
    /\ MainIdle
    /\ startCalls < MaxStartCalls
    /\ startCalls' = startCalls + 1
    /\ running' = TRUE
    /\ IF stdin_tty
         THEN /\ termios_saved' = TRUE
              /\ original_termios' = tty
              /\ tty' = tty \ {"ECHOCTL"}
         ELSE UNCHANGED <<termios_saved, original_termios, tty>>
    /\ signal_set' = MapSignals
    /\ IF joinable
         THEN /\ proc' = "terminated"
              /\ sigmask' = [sigmask EXCEPT !["main"] = @ \cup MapSignals]
              /\ UNCHANGED <<joinable, w_pc, spawnCount>>
         ELSE /\ proc' = proc
              /\ sigmask' = [t \in Threads |->
                              IF t = "main" THEN sigmask["main"] \cup MapSignals
                                            ELSE sigmask["main"]]
              /\ joinable' = TRUE
              /\ w_pc' = "spawned"
              /\ spawnCount' = spawnCount + 1
    /\ UNCHANGED <<killSig, stop_requested, callback, cb_writing, stdin_tty, pending,
                   w_pending, w_sig, w_immediate, local_set, w_cb, stop_pc,
                   invocations, stopRets, stopCalls, joinCount, wakeSent,
                   deliveries, waitFails>>
    /\ ttyAtStart' = tty
    /\ w_sched' = IF joinable THEN w_sched ELSE DefaultSched
    /\ UNCHANGED <<dtor_pc, drops, delivLog,
                   bs_ret, bs_outcome, queryv, failRun, sp_ret, spCalls,
                   demov>>

\* SignalHandler::start().  It tests nothing before it acts: running is set,
\* the terminal is snapshotted (when STDIN is one) and ECHOCTL cleared, the
\* signals of the map are blocked in the caller and the thread is created with
\* the caller's mask.  Assigning to a std::thread that is still joinable calls
\* std::terminate().  sigemptyset(), sigaddset() and pthread_sigmask() get a
\* valid set and valid signal numbers and succeed.
start ==
    /\ proc = "running"
    /\ MainIdle
    /\ startCalls < MaxStartCalls
    /\ startCalls' = startCalls + 1
    /\ running' = TRUE
    /\ IF stdin_tty
         THEN /\ termios_saved' = TRUE
              /\ original_termios' = tty
              /\ tty' = tty \ {"ECHOCTL"}
         ELSE UNCHANGED <<termios_saved, original_termios, tty>>
    /\ signal_set' = MapSignals
    /\ IF joinable
         THEN /\ proc' = "terminated"
              /\ sigmask' = [sigmask EXCEPT !["main"] = @ \cup MapSignals]
              /\ UNCHANGED <<joinable, w_pc, spawnCount>>
         ELSE /\ proc' = proc
              /\ sigmask' = [t \in Threads |-> sigmask["main"] \cup MapSignals]
              /\ joinable' = TRUE
              /\ w_pc' = "spawned"
              /\ spawnCount' = spawnCount + 1
    /\ UNCHANGED <<killSig, stop_requested, callback, cb_writing, stdin_tty, pending,
                   w_pending, w_sig, w_immediate, local_set, w_cb, stop_pc,
                   invocations, stopRets, stopCalls, joinCount, wakeSent,
                   deliveries, waitFails>>
    /\ ttyAtStart' = tty
    /\ w_sched' = IF joinable THEN w_sched ELSE DefaultSched
    /\ UNCHANGED <<dtor_pc, drops, delivLog,
                   bs_ret, bs_outcome, queryv, failRun, sp_ret, spCalls,
                   demov>>

\* start() with the result of sigemptyset(&signal_set) as an input: when it
\* fails, start() returns after running.store(true) and the terminal block,
\* with no signal blocked and no thread created
start_lib(eOk) ==
    IF eOk
      THEN start
      ELSE /\ proc = "running"
           /\ MainIdle
           /\ startCalls < MaxStartCalls
           /\ startCalls' = startCalls + 1
           /\ running' = TRUE
           /\ IF stdin_tty
                THEN /\ termios_saved' = TRUE
                     /\ original_termios' = tty
                     /\ tty' = tty \ {"ECHOCTL"}
                ELSE UNCHANGED <<termios_saved, original_termios, tty>>
           /\ ttyAtStart' = tty
           /\ UNCHANGED <<dead, stop_requested, signal_set, callback,
                          cb_writing, joinable, stdin_tty, workerv, sigs,
                          stop_pc, invocations, stopRets, stopCalls,
                          spawnCount, joinCount, wakeSent, deliveries,
                          waitFails, dtor_pc, drops, delivLog, bs_ret,
                          bs_outcome, queryv, failRun, prio, demov>>

\* ------------------------------------------------------ environment -----
\* the threads that exist
LiveThreads == IF WorkerAlive THEN {"main", "worker"} ELSE {"main"}

\* kill(pid, s) from outside: pending while every
\* thread blocks it, else its default action ends the process
Deliver(s) ==
    /\ proc = "running"
    /\ deliveries < MaxDeliveries
    /\ deliveries' = deliveries + 1
    /\ IF \A t \in LiveThreads : s \in sigmask[t]
         THEN /\ pending' = pending \cup {s}
              /\ UNCHANGED dead
         ELSE /\ proc' = "killed"
              /\ killSig' = s
              /\ UNCHANGED pending
    /\ UNCHANGED <<shared, termv, workerv, sigmask, w_pending, stop_pc,
                   invocations, stopRets, stopCalls, startCalls, spawnCount,
                   joinCount, wakeSent, waitFails>>
    /\ UNCHANGED extra

\* the signal the bursts are made of
BurstSignals == {SIGINT}

\* a callback invocation is in progress
InCallback == w_pc \in {"incb", "cbret"}

\* Deliver(s) as one signal of a burst of at most MaxBurst, its arrival
\* recorded
DeliverBurst(s) ==
    /\ proc = "running"
    /\ deliveries < MaxBurst
    /\ deliveries' = deliveries + 1
    /\ delivLog' = Append(delivLog, <<s, Len(invocations), InCallback>>)
    /\ IF \A t \in LiveThreads : s \in sigmask[t]
         THEN /\ pending' = pending \cup {s}
              /\ UNCHANGED dead
         ELSE /\ proc' = "killed"
              /\ killSig' = s
              /\ UNCHANGED pending
    /\ UNCHANGED <<shared, termv, workerv, sigmask, w_pending, stop_pc,
                   invocations, stopRets, stopCalls, startCalls, spawnCount,
                   joinCount, wakeSent, waitFails, ttyAtStart, dtor_pc, drops,
                   bs_ret, bs_outcome, queryv, failRun, prio, demov>>

\* ------------------------------------------------- SignalHandler::run ---
\* the sigemptyset/sigaddset loop that builds local_set
WorkerBuildSet ==
    /\ proc = "running"
    /\ w_pc = "spawned"
    /\ local_set' = MapSignals
    /\ w_pc' = "loop"
    /\ UNCHANGED <<dead, shared, termv, sigs, w_sig, w_immediate, w_cb,
                   stop_pc, history>>
    /\ UNCHANGED extra

\* the beginning of run() with the result of sigemptyset(&local_set) as an
\* input: when it fails, run() returns at once and running keeps its value
WorkerBuildSet_lib(eOk) ==
    IF eOk
      THEN WorkerBuildSet
      ELSE /\ proc = "running"
           /\ w_pc = "spawned"
           /\ w_pc' = "done"
           /\ UNCHANGED <<dead, shared, termv, sigs, w_sig, w_immediate,
                          local_set, w_cb, stop_pc, history>>
           /\ UNCHANGED extra

\* while (running.load() && !stop_requested.load())
WorkerLoopTest ==
    /\ proc = "running"
    /\ w_pc = "loop"
    /\ w_pc' = IF running /\ ~stop_requested THEN "wait" ELSE "exit"
    /\ UNCHANGED <<dead, shared, termv, sigs, w_sig, w_immediate, local_set,
                   w_cb, stop_pc, history>>
    /\ UNCHANGED extra

\* WorkerWait that returns a pending signal and leaves it pending
WorkerWait_Peek(s) ==
    /\ proc = "running"
    /\ w_pc = "wait"
    /\ s \in (pending \cup w_pending) \cap local_set
    /\ w_sig' = s
    /\ w_pc' = "woke"
    /\ UNCHANGED <<dead, shared, termv, sigs, w_immediate, local_set, w_cb,
                   stop_pc, history>>
    /\ failRun' = 0
    /\ UNCHANGED <<extra0, prio, demov>>

\* sigwaitinfo(&local_set, &siginfo) returns a pending signal of the set and
\* consumes it
WorkerWait(s) ==
    /\ proc = "running"
    /\ w_pc = "wait"
    /\ s \in (pending \cup w_pending) \cap local_set
    /\ IF s \in w_pending
         THEN w_pending' = w_pending \ {s} /\ UNCHANGED pending
         ELSE pending' = pending \ {s} /\ UNCHANGED w_pending
    /\ w_sig' = s
    /\ w_pc' = "woke"
    /\ UNCHANGED <<dead, shared, termv, sigmask, w_immediate, local_set, w_cb,
                   stop_pc, history>>
    /\ failRun' = 0
    /\ UNCHANGED <<extra0, prio, demov>>

\* sigwaitinfo() fails and returns -1
WorkerWaitFail ==
    /\ proc = "running"
    /\ w_pc = "wait"
    /\ waitFails < MaxWaitFail
    /\ waitFails' = waitFails + 1
    /\ w_sig' = WaitError
    /\ w_pc' = "woke"
    /\ UNCHANGED <<dead, shared, termv, sigs, w_immediate, local_set, w_cb,
                   stop_pc, invocations, stopRets, stopCalls, startCalls,
                   spawnCount, joinCount, wakeSent, deliveries>>
    /\ failRun' = failRun + 1
    /\ UNCHANGED <<extra0, prio, demov>>

\* sigwaitinfo() fails again, right after a call that failed
WorkerWaitFailAgain ==
    /\ proc = "running"
    /\ w_pc = "wait"
    /\ failRun >= 1
    /\ failRun < MaxFailRun
    /\ failRun' = failRun + 1
    /\ waitFails' = waitFails + 1
    /\ w_sig' = WaitError
    /\ w_pc' = "woke"
    /\ UNCHANGED <<dead, shared, termv, sigs, w_immediate, local_set, w_cb,
                   stop_pc, invocations, stopRets, stopCalls, startCalls,
                   spawnCount, joinCount, wakeSent, deliveries>>
    /\ UNCHANGED <<extra0, prio, demov>>

\* WorkerClassify with the name of the entry taken for its flag
WorkerClassify_NoFlag ==
    /\ proc = "running"
    /\ w_pc = "woke"
    /\ IF stop_requested
         THEN w_pc' = "exit" /\ UNCHANGED w_immediate
         ELSE IF w_sig = SIGUSR1
           THEN w_pc' = "loop" /\ UNCHANGED w_immediate
           ELSE IF w_sig \notin DOMAIN signal_map
             THEN w_pc' = "loop" /\ UNCHANGED w_immediate
             ELSE w_pc' = "dispatch" /\ w_immediate' = FALSE
    /\ UNCHANGED <<dead, shared, termv, sigs, w_sig, local_set, w_cb, stop_pc,
                   history>>
    /\ UNCHANGED extra

\* WorkerClassify without the signal_map.find(sig) == end() test
WorkerClassify_NoMapTest ==
    /\ proc = "running"
    /\ w_pc = "woke"
    /\ IF stop_requested
         THEN w_pc' = "exit" /\ UNCHANGED w_immediate
         ELSE IF w_sig = SIGUSR1
           THEN w_pc' = "loop" /\ UNCHANGED w_immediate
           ELSE /\ w_pc' = "dispatch"
                /\ w_immediate' = IF w_sig \in DOMAIN signal_map
                                    THEN signal_map[w_sig][2] ELSE FALSE
    /\ UNCHANGED <<dead, shared, termv, sigs, w_sig, local_set, w_cb, stop_pc,
                   history>>
    /\ UNCHANGED extra

\* WorkerClassify without the test of stop_requested after the wait
WorkerClassify_NoStopTest ==
    /\ proc = "running"
    /\ w_pc = "woke"
    /\ IF w_sig = SIGUSR1
         THEN w_pc' = "loop" /\ UNCHANGED w_immediate
         ELSE IF w_sig \notin DOMAIN signal_map
           THEN w_pc' = "loop" /\ UNCHANGED w_immediate
           ELSE w_pc' = "dispatch" /\ w_immediate' = signal_map[w_sig][2]
    /\ UNCHANGED <<dead, shared, termv, sigs, w_sig, local_set, w_cb, stop_pc,
                   history>>
    /\ UNCHANGED extra

\* WorkerClassify that takes every signal of the map for fatal
WorkerClassify_AllFatal ==
    /\ proc = "running"
    /\ w_pc = "woke"
    /\ IF stop_requested
         THEN w_pc' = "exit" /\ UNCHANGED w_immediate
         ELSE IF w_sig = SIGUSR1
           THEN w_pc' = "loop" /\ UNCHANGED w_immediate
           ELSE IF w_sig \notin DOMAIN signal_map
             THEN w_pc' = "loop" /\ UNCHANGED w_immediate
             ELSE w_pc' = "dispatch" /\ w_immediate' = TRUE
    /\ UNCHANGED <<dead, shared, termv, sigs, w_sig, local_set, w_cb, stop_pc,
                   history>>
    /\ UNCHANGED extra

\* the tests after the wait: stop_requested (break), sig == SIGUSR1
\* (continue), signal_map.find(sig) == end() (continue); else immediate is
\* the flag of the entry
WorkerClassify ==
    /\ proc = "running"
    /\ w_pc = "woke"
    /\ IF stop_requested
         THEN w_pc' = "exit" /\ UNCHANGED w_immediate
         ELSE IF w_sig = SIGUSR1
           THEN w_pc' = "loop" /\ UNCHANGED w_immediate
           ELSE IF w_sig \notin DOMAIN signal_map
             THEN w_pc' = "loop" /\ UNCHANGED w_immediate
             ELSE w_pc' = "dispatch" /\ w_immediate' = signal_map[w_sig][2]
    /\ UNCHANGED <<dead, shared, termv, sigs, w_sig, local_set, w_cb, stop_pc,
                   history>>
    /\ UNCHANGED extra

\* what the worker's unlocked read of callback may yield
CallbackReads ==
    IF cb_writing = NotWriting THEN {callback}
                               ELSE {callback, cb_writing, Torn}

\* WorkerDispatch that drops a fatal signal too when no callback is set
WorkerDispatch_NoExit(tst, cb) ==
    /\ proc = "running"
    /\ w_pc = "dispatch"
    /\ IF tst # NoCb
         THEN /\ w_cb' = cb
              /\ w_pc' = "incb"
              /\ IF cb = Torn
                   THEN proc' = "crashed" /\ UNCHANGED <<killSig, invocations>>
                   ELSE IF cb = NoCb
                     THEN proc' = "terminated" /\ UNCHANGED <<killSig, invocations>>
                     ELSE /\ invocations' = Append(invocations,
                                                   <<cb, w_sig, w_immediate>>)
                          /\ UNCHANGED dead
         ELSE /\ w_pc' = "loop"
              /\ UNCHANGED <<dead, invocations, w_cb>>
    /\ UNCHANGED <<shared, termv, sigs, w_sig, w_immediate, local_set, stop_pc,
                   stopRets, stopCalls, startCalls, spawnCount, joinCount,
                   wakeSent, deliveries, waitFails>>
    /\ drops' = IF tst = NoCb /\ ~w_immediate THEN drops + 1 ELSE drops
    /\ UNCHANGED <<ttyAtStart, dtor_pc, delivLog, bs_ret, bs_outcome, queryv, failRun, prio, demov>>

\* WorkerDispatch that ends the process for any signal when no callback is
\* set
WorkerDispatch_ExitAny(tst, cb) ==
    /\ proc = "running"
    /\ w_pc = "dispatch"
    /\ IF tst # NoCb
         THEN /\ w_cb' = cb
              /\ w_pc' = "incb"
              /\ IF cb = Torn
                   THEN proc' = "crashed" /\ UNCHANGED <<killSig, invocations>>
                   ELSE IF cb = NoCb
                     THEN proc' = "terminated" /\ UNCHANGED <<killSig, invocations>>
                     ELSE /\ invocations' = Append(invocations,
                                                   <<cb, w_sig, w_immediate>>)
                          /\ UNCHANGED dead
         ELSE /\ proc' = "exited"
              /\ UNCHANGED <<killSig, invocations, w_cb, w_pc>>
    /\ UNCHANGED <<shared, termv, sigs, w_sig, w_immediate, local_set, stop_pc,
                   stopRets, stopCalls, startCalls, spawnCount, joinCount,
                   wakeSent, deliveries, waitFails>>
    /\ drops' = IF tst = NoCb /\ ~w_immediate THEN drops + 1 ELSE drops
    /\ UNCHANGED <<ttyAtStart, dtor_pc, delivLog, bs_ret, bs_outcome, queryv, failRun, prio, demov>>

\* WorkerDispatch that starts the callback and goes on without waiting for
\* it to return
WorkerDispatch_Detached(tst, cb) ==
    /\ proc = "running"
    /\ w_pc = "dispatch"
    /\ IF tst # NoCb
         THEN /\ w_cb' = cb
              /\ w_pc' = "loop"
              /\ IF cb = Torn
                   THEN proc' = "crashed" /\ UNCHANGED <<killSig, invocations>>
                   ELSE IF cb = NoCb
                     THEN proc' = "terminated" /\ UNCHANGED <<killSig, invocations>>
                     ELSE /\ invocations' = Append(invocations,
                                                   <<cb, w_sig, w_immediate>>)
                          /\ UNCHANGED dead
         ELSE IF w_immediate
           THEN /\ proc' = "exited"
                /\ UNCHANGED <<killSig, invocations, w_cb, w_pc>>
           ELSE /\ w_pc' = "loop"
                /\ UNCHANGED <<dead, invocations, w_cb>>
    /\ UNCHANGED <<shared, termv, sigs, w_sig, w_immediate, local_set, stop_pc,
                   stopRets, stopCalls, startCalls, spawnCount, joinCount,
                   wakeSent, deliveries, waitFails>>
    /\ drops' = IF tst = NoCb /\ ~w_immediate THEN drops + 1 ELSE drops
    /\ UNCHANGED <<ttyAtStart, dtor_pc, delivLog, bs_ret, bs_outcome, queryv, failRun, prio, demov>>

\* if (callback) callback(sig, immediate);
\* else if (immediate) std::exit(EXIT_FAILURE);
\* The std::function is read twice, by the test and by the call: tst and cb
\* are what the two reads yield (a torn value tests as non-empty).  Calling
\* a torn std::function crashes; calling one that is empty by now throws
\* std::bad_function_call, which nothing catches.
WorkerDispatch(tst, cb) ==
    /\ proc = "running"
    /\ w_pc = "dispatch"
    /\ IF tst # NoCb
         THEN /\ w_cb' = cb
              /\ w_pc' = "incb"
              /\ IF cb = Torn
                   THEN proc' = "crashed" /\ UNCHANGED <<killSig, invocations>>
                   ELSE IF cb = NoCb
                     THEN proc' = "terminated" /\ UNCHANGED <<killSig, invocations>>
                     ELSE /\ invocations' = Append(invocations,
                                                   <<cb, w_sig, w_immediate>>)
                          /\ UNCHANGED dead
         ELSE IF w_immediate
           THEN /\ proc' = "exited"
                /\ UNCHANGED <<killSig, invocations, w_cb, w_pc>>
           ELSE /\ w_pc' = "loop"
                /\ UNCHANGED <<dead, invocations, w_cb>>
    /\ UNCHANGED <<shared, termv, sigs, w_sig, w_immediate, local_set, stop_pc,
                   stopRets, stopCalls, startCalls, spawnCount, joinCount,
                   wakeSent, deliveries, waitFails>>
    /\ drops' = IF tst = NoCb /\ ~w_immediate THEN drops + 1 ELSE drops
    /\ UNCHANGED <<ttyAtStart, dtor_pc, delivLog, bs_ret, bs_outcome, queryv, failRun, prio, demov>>

\* CallbackReturn that leaves the loop when the signal was a fatal one
CallbackReturn_FatalEnds ==
    /\ proc = "running"
    /\ \/ w_pc = "incb" /\ w_cb # "cbStop"
       \/ w_pc = "cbret"
    /\ stop_pc["worker"] = "idle"
    /\ w_pc' = IF w_immediate THEN "exit" ELSE "loop"
    /\ w_cb' = NoCb
    /\ UNCHANGED <<dead, shared, termv, sigs, w_sig, w_immediate, local_set,
                   stop_pc, history>>
    /\ UNCHANGED extra

\* the callback returns to run(); the loop goes on
CallbackReturn ==
    /\ proc = "running"
    /\ \/ w_pc = "incb" /\ w_cb # "cbStop"
       \/ w_pc = "cbret"
    /\ stop_pc["worker"] = "idle"
    /\ w_pc' = "loop"
    /\ w_cb' = NoCb
    /\ UNCHANGED <<dead, shared, termv, sigs, w_sig, w_immediate, local_set,
                   stop_pc, history>>
    /\ UNCHANGED extra

\* running.store(false) after the loop; the thread function returns
WorkerExit ==
    /\ proc = "running"
    /\ w_pc = "exit"
    /\ running' = FALSE
    /\ w_pc' = "done"
    /\ UNCHANGED <<dead, stop_requested, termios_saved, original_termios,
                   signal_set, callback, cb_writing, joinable, termv, sigs, w_sig,
                   w_immediate, local_set, w_cb, stop_pc, history>>
    /\ UNCHANGED extra

\* ------------------------------------------------ SignalHandler::stop ---
\* where the caller is when stop() returns
AfterStop(t) == IF t = "worker" THEN "cbret" ELSE w_pc

\* a thread may call stop(): the owner between its calls, the worker from
\* the body of cbStop
MayCallStop(t) ==
    IF t = "worker" THEN w_pc = "incb" /\ w_cb = "cbStop"
    ELSE IF t = "main" THEN cb_writing = NotWriting /\ dtor_pc = "none"
    ELSE dtor_pc = "none"

\* StopCheck that tests stop_requested alone
StopCheck_NoRunningTest(t) ==
    /\ proc = "running"
    /\ stop_pc[t] = "idle"
    /\ MayCallStop(t)
    /\ stopCalls[t] < MaxStopCalls
    /\ stopCalls' = [stopCalls EXCEPT ![t] = @ + 1]
    /\ IF stop_requested
         THEN /\ stopRets' = Append(stopRets, <<t, FALSE, startCalls>>)
              /\ w_pc' = AfterStop(t)
              /\ UNCHANGED stop_pc
         ELSE /\ stop_pc' = [stop_pc EXCEPT ![t] = "store"]
              /\ UNCHANGED <<stopRets, w_pc>>
    /\ UNCHANGED <<dead, shared, termv, sigs, w_sig, w_immediate, local_set,
                   w_cb, invocations, startCalls, spawnCount, joinCount,
                   wakeSent, deliveries, waitFails>>
    /\ UNCHANGED extra

\* if (!running.load() || stop_requested.load()) return false;
StopCheck(t) ==
    /\ proc = "running"
    /\ stop_pc[t] = "idle"
    /\ MayCallStop(t)
    /\ stopCalls[t] < MaxStopCalls
    /\ stopCalls' = [stopCalls EXCEPT ![t] = @ + 1]
    /\ IF ~running \/ stop_requested
         THEN /\ stopRets' = Append(stopRets, <<t, FALSE, startCalls>>)
              /\ w_pc' = AfterStop(t)
              /\ UNCHANGED stop_pc
         ELSE /\ stop_pc' = [stop_pc EXCEPT ![t] = "store"]
              /\ UNCHANGED <<stopRets, w_pc>>
    /\ UNCHANGED <<dead, shared, termv, sigs, w_sig, w_immediate, local_set,
                   w_cb, invocations, startCalls, spawnCount, joinCount,
                   wakeSent, deliveries, waitFails>>
    /\ UNCHANGED extra

\* stop_requested.store(true)
StopStore(t) ==
    /\ proc = "running"
    /\ stop_pc[t] = "store"
    /\ stop_requested' = TRUE
    /\ stop_pc' = [stop_pc EXCEPT ![t] = "kill"]
    /\ UNCHANGED <<dead, running, termios_saved, original_termios, signal_set,
                   callback, cb_writing, joinable, termv, sigs, workerv,
                   history>>
    /\ UNCHANGED extra

\* pthread_kill(worker_thread.native_handle(), SIGUSR1): nothing is sent to
\* a thread that has finished; a thread that blocks SIGUSR1 gets it pending;
\* otherwise the default action of SIGUSR1 ends the process
StopKill(t) ==
    /\ proc = "running"
    /\ stop_pc[t] = "kill"
    /\ wakeSent' = wakeSent + 1
    /\ stop_pc' = [stop_pc EXCEPT ![t] = "join"]
    /\ IF ~WorkerAlive
         THEN UNCHANGED <<dead, w_pending>>
         ELSE IF SIGUSR1 \in sigmask["worker"]
           THEN w_pending' = w_pending \cup {SIGUSR1} /\ UNCHANGED dead
           ELSE proc' = "killed" /\ killSig' = SIGUSR1 /\ UNCHANGED w_pending
    /\ UNCHANGED <<shared, termv, sigmask, pending, workerv, invocations,
                   stopRets, stopCalls, startCalls, spawnCount, joinCount,
                   deliveries, waitFails>>
    /\ UNCHANGED extra

\* pthread_kill() with the native_handle() of a std::thread that never held
\* a thread: the handle is no thread id, and besides the call that sends
\* nothing (StopKill) the call may crash
StopKillNoThread(t) ==
    /\ proc = "running"
    /\ stop_pc[t] = "kill"
    /\ w_pc = "none"
    /\ wakeSent' = wakeSent + 1
    /\ stop_pc' = [stop_pc EXCEPT ![t] = "join"]
    /\ proc' = "crashed"
    /\ UNCHANGED <<killSig, shared, termv, sigs, workerv, invocations,
                   stopRets, stopCalls, startCalls, spawnCount, joinCount,
                   deliveries, waitFails>>
    /\ UNCHANGED extra

\* if (worker_thread.joinable()): the test.  A thread that finds itself
\* joinable and joins itself gets std::system_error, which nothing catches
StopJoin(t) ==
    /\ proc = "running"
    /\ stop_pc[t] = "join"
    /\ IF ~joinable
         THEN stop_pc' = [stop_pc EXCEPT ![t] = "restore"] /\ UNCHANGED dead
         ELSE IF t = "worker"
           THEN /\ proc' = "terminated"
                /\ stop_pc' = [stop_pc EXCEPT ![t] = "restore"]
                /\ UNCHANGED killSig
           ELSE stop_pc' = [stop_pc EXCEPT ![t] = "joining"] /\ UNCHANGED dead
    /\ UNCHANGED <<shared, termv, sigs, workerv, history>>
    /\ UNCHANGED extra

\* worker_thread.join(): returns when the thread has finished, and the
\* std::thread is no longer joinable.  join() on a std::thread that another
\* caller has joined since the test throws std::system_error, which nothing
\* catches
StopJoining(t) ==
    /\ proc = "running"
    /\ stop_pc[t] = "joining"
    /\ IF ~joinable
         THEN proc' = "terminated" /\ UNCHANGED <<killSig, joinable, joinCount>>
         ELSE /\ w_pc = "done"
              /\ joinable' = FALSE
              /\ joinCount' = joinCount + 1
              /\ UNCHANGED dead
    /\ stop_pc' = [stop_pc EXCEPT ![t] = "restore"]
    /\ UNCHANGED <<running, stop_requested, termios_saved, original_termios,
                   signal_set, callback, cb_writing, termv, sigs, workerv,
                   invocations,
                   stopRets, stopCalls, startCalls, spawnCount, wakeSent,
                   deliveries, waitFails>>
    /\ UNCHANGED extra

\* StopRestore that clears stop_requested before it returns
StopRestore_ClearsRequest(t) ==
    /\ proc = "running"
    /\ stop_pc[t] = "restore"
    /\ tty' = IF termios_saved THEN original_termios ELSE tty
    /\ stop_requested' = FALSE
    /\ stopRets' = Append(stopRets, <<t, TRUE, startCalls>>)
    /\ stop_pc' = [stop_pc EXCEPT ![t] = "idle"]
    /\ w_pc' = AfterStop(t)
    /\ UNCHANGED <<dead, running, termios_saved, original_termios, signal_set,
                   callback, cb_writing, joinable, stdin_tty, sigs, w_sig,
                   w_immediate, local_set,
                   w_cb, invocations, stopCalls, startCalls, spawnCount,
                   joinCount, wakeSent, deliveries, waitFails>>
    /\ UNCHANGED extra

\* StopRestore that also unblocks the signals start() blocked in the caller
StopRestore_Unblocks(t) ==
    /\ proc = "running"
    /\ stop_pc[t] = "restore"
    /\ tty' = IF termios_saved THEN original_termios ELSE tty
    /\ stopRets' = Append(stopRets, <<t, TRUE, startCalls>>)
    /\ stop_pc' = [stop_pc EXCEPT ![t] = "idle"]
    /\ w_pc' = AfterStop(t)
    /\ sigmask' = [sigmask EXCEPT ![t] = sigmask[t] \ signal_set]
    /\ UNCHANGED <<dead, shared, stdin_tty, pending, w_pending, w_sig,
                   w_immediate, local_set, w_cb, invocations, stopCalls,
                   startCalls, spawnCount, joinCount, wakeSent, deliveries,
                   waitFails>>
    /\ UNCHANGED extra

\* StopRestore that writes original_termios whether it was saved or not
StopRestore_Unconditional(t) ==
    /\ proc = "running"
    /\ stop_pc[t] = "restore"
    /\ tty' = original_termios
    /\ stopRets' = Append(stopRets, <<t, TRUE, startCalls>>)
    /\ stop_pc' = [stop_pc EXCEPT ![t] = "idle"]
    /\ w_pc' = AfterStop(t)
    /\ UNCHANGED <<dead, shared, stdin_tty, sigs, w_sig, w_immediate, local_set,
                   w_cb, invocations, stopCalls, startCalls, spawnCount,
                   joinCount, wakeSent, deliveries, waitFails>>
    /\ UNCHANGED extra

\* StopRestore that leaves the terminal as it is
StopRestore_NoTcsetattr(t) ==
    /\ proc = "running"
    /\ stop_pc[t] = "restore"
    /\ tty' = tty
    /\ stopRets' = Append(stopRets, <<t, TRUE, startCalls>>)
    /\ stop_pc' = [stop_pc EXCEPT ![t] = "idle"]
    /\ w_pc' = AfterStop(t)
    /\ UNCHANGED <<dead, shared, stdin_tty, sigs, w_sig, w_immediate, local_set,
                   w_cb, invocations, stopCalls, startCalls, spawnCount,
                   joinCount, wakeSent, deliveries, waitFails>>
    /\ UNCHANGED extra

\* if (termios_saved) tcsetattr(STDIN_FILENO, TCSANOW, &original_termios);
\* return true;
StopRestore(t) ==
    /\ proc = "running"
    /\ stop_pc[t] = "restore"
    /\ tty' = IF termios_saved THEN original_termios ELSE tty
    /\ stopRets' = Append(stopRets, <<t, TRUE, startCalls>>)
    /\ stop_pc' = [stop_pc EXCEPT ![t] = "idle"]
    /\ w_pc' = AfterStop(t)
    /\ UNCHANGED <<dead, shared, stdin_tty, sigs, w_sig, w_immediate, local_set,
                   w_cb, invocations, stopCalls, startCalls, spawnCount,
                   joinCount, wakeSent, deliveries, waitFails>>
    /\ UNCHANGED extra

\* ------------------------------------- SignalHandler::~SignalHandler ---
\* if (!running.load()) return;
Destroy ==
    /\ proc = "running"
    /\ MainIdle
    /\ dtor_pc' = IF running THEN "stop" ELSE "members"
    /\ UNCHANGED <<dead, shared, termv, workerv, sigs, stop_pc, history,
                   ttyAtStart, drops, delivLog,
                   bs_ret, bs_outcome, queryv, failRun, prio, demov>>

\* stop(), called by the destructor: its test of the two flags
DestroyStopCheck ==
    /\ proc = "running"
    /\ dtor_pc = "stop"
    /\ stopCalls' = [stopCalls EXCEPT !["main"] = @ + 1]
    /\ IF ~running \/ stop_requested
         THEN /\ stopRets' = Append(stopRets, <<"main", FALSE, startCalls>>)
              /\ dtor_pc' = "members"
              /\ UNCHANGED stop_pc
         ELSE /\ stop_pc' = [stop_pc EXCEPT !["main"] = "store"]
              /\ dtor_pc' = "stopping"
              /\ UNCHANGED stopRets
    /\ UNCHANGED <<dead, shared, termv, sigs, workerv, invocations, startCalls,
                   spawnCount, joinCount, wakeSent, deliveries, waitFails,
                   ttyAtStart, drops, delivLog,
                   bs_ret, bs_outcome, queryv, failRun, prio, demov>>

\* the destructor's stop() has returned, or was not called: the members are
\* destroyed, and ~thread() of a joinable std::thread calls std::terminate()
DestroyMembers ==
    /\ proc = "running"
    /\ \/ dtor_pc = "members"
       \/ dtor_pc = "stopping" /\ stop_pc["main"] = "idle"
    /\ dtor_pc' = "done"
    /\ proc' = IF joinable THEN "terminated" ELSE proc
    /\ UNCHANGED <<killSig, shared, termv, workerv, sigs, stop_pc, history,
                   ttyAtStart, drops, delivLog,
                   bs_ret, bs_outcome, queryv, failRun, prio, demov>>

\* ------------------------------------------ SignalHandler::setPriority ---
\* setPriority without the test of running and joinable()
setPriority_NoGuard(schedPolicy, priority, ok) ==
    /\ proc = "running"
    /\ MainIdle
    /\ spCalls < MaxPrioCalls
    /\ spCalls' = spCalls + 1
    /\ sp_ret' = IF ok THEN "true" ELSE "false"
    /\ w_sched' = IF ok THEN <<schedPolicy, priority>> ELSE w_sched
    /\ UNCHANGED <<dead, shared, termv, workerv, sigs, stop_pc, history,
                   extra0, failRun, demov>>

\* if (!running.load() || !worker_thread.joinable()) return false;
\* return pthread_setschedparam(handle, schedPolicy, &sch_params) == 0;
\* ok: whether pthread_setschedparam() succeeds (it needs privilege for the
\* real-time policies)
setPriority(schedPolicy, priority, ok) ==
    /\ proc = "running"
    /\ MainIdle
    /\ spCalls < MaxPrioCalls
    /\ spCalls' = spCalls + 1
    /\ IF ~running \/ ~joinable
         THEN sp_ret' = "false" /\ UNCHANGED w_sched
         ELSE /\ sp_ret' = IF ok THEN "true" ELSE "false"
              /\ w_sched' = IF ok THEN <<schedPolicy, priority>> ELSE w_sched
    /\ UNCHANGED <<dead, shared, termv, workerv, sigs, stop_pc, history,
                   extra0, failRun, demov>>

\* ------------------------------------------------ main.cpp: the demo ---
\* everything the demo's own steps leave alone
handlerv == <<dead, shared, termv, workerv, sigs, stop_pc, history, extra0,
              failRun, prio>>

\* main(): block_signals(); setCallback(signal_handler); start();
\* setPriority(SCHED_RR, 10), each once and in this order
DemoBlockSignals ==
    /\ sigmask["main"] = {} /\ startCalls = 0 /\ callback = NoCb
    /\ block_signals

DemoSetCallback ==
    /\ MapSignals \subseteq sigmask["main"] /\ startCalls = 0
    /\ setCallback(DemoCb)

DemoStart ==
    /\ callback = DemoCb /\ startCalls = 0
    /\ start

DemoSetPriority ==
    /\ startCalls = 1 /\ spCalls = 0
    /\ \E ok \in BOOLEAN : setPriority("SCHED_RR", 10, ok)

\* workers.emplace_back(worker_thread, i) for the num_workers threads
DemoSpawn ==
    /\ proc = "running"
    /\ spCalls = 1 /\ d_main = "init"
    /\ d_main' = "wait"
    /\ d_w' = [i \in DemoWorkers |-> "lock"]
    /\ UNCHANGED <<handlerv, d_mutex, d_stop, d_cb>>

\* cv.wait(lock, pred) of main(): with the mutex held the predicate is
\* tested; when it is false the thread releases the mutex and sleeps until a
\* notification, then takes the mutex and tests again
DemoMainWait ==
    /\ proc = "running"
    /\ d_main \in {"wait", "wake"}
    /\ d_mutex = MutexFree
    /\ d_main' = IF d_stop THEN "stop" ELSE "sleep"
    /\ UNCHANGED <<handlerv, d_w, d_mutex, d_stop, d_cb>>

\* signalHandler.stop(), once; its steps are those of stop()
DemoStop ==
    /\ d_main = "stop" /\ stopCalls["main"] = 0
    /\ StopCheck("main")

\* worker.join() for every worker, return 0
DemoJoinWorkers ==
    /\ proc = "running"
    /\ d_main = "stop" /\ stopCalls["main"] = 1 /\ stop_pc["main"] = "idle"
    /\ \A i \in DemoWorkers : d_w[i] = "done"
    /\ d_main' = "returned"
    /\ UNCHANGED <<handlerv, d_w, d_mutex, d_stop, d_cb>>

\* worker_thread(): std::unique_lock lock(cv_mutex), and the same when
\* wait_for() takes the mutex again after a notification or its timeout
DemoWorkerLock(i) ==
    /\ proc = "running"
    /\ d_w[i] \in {"lock", "wake"}
    /\ d_mutex = MutexFree
    /\ d_mutex' = i
    /\ d_w' = [d_w EXCEPT ![i] = "test"]
    /\ UNCHANGED <<handlerv, d_main, d_stop, d_cb>>

\* while (!stop_requested.load()) { work; cv.wait_for(lock, 100ms, pred); }
\* with the mutex held: the flag set ends the function (the lock is
\* released); else wait_for() releases the mutex and sleeps
DemoWorkerTest(i) ==
    /\ proc = "running"
    /\ d_w[i] = "test"
    /\ d_mutex' = MutexFree
    /\ d_w' = [d_w EXCEPT ![i] = IF d_stop THEN "done" ELSE "wait"]
    /\ UNCHANGED <<handlerv, d_main, d_stop, d_cb>>

\* the timeout of wait_for() ends the sleep
DemoWorkerTimeout(i) ==
    /\ proc = "running"
    /\ d_w[i] = "wait"
    /\ d_w' = [d_w EXCEPT ![i] = "wake"]
    /\ UNCHANGED <<handlerv, d_main, d_mutex, d_stop, d_cb>>

\* signal_handler(): std::lock_guard lock(cv_mutex)
DemoCbLock ==
    /\ proc = "running"
    /\ w_pc = "incb" /\ w_cb = DemoCb /\ d_cb = "none"
    /\ d_mutex = MutexFree
    /\ d_mutex' = MutexCb
    /\ d_cb' = "locked"
    /\ UNCHANGED <<handlerv, d_main, d_w, d_stop>>

\* stop_requested.store(true); the lock_guard goes out of scope
DemoCbStore ==
    /\ proc = "running"
    /\ d_cb = "locked"
    /\ d_stop' = TRUE
    /\ d_mutex' = MutexFree
    /\ d_cb' = "notify"
    /\ UNCHANGED <<handlerv, d_main, d_w>>

\* cv.notify_all(): every thread that sleeps on cv is woken
DemoCbNotify ==
    /\ proc = "running"
    /\ d_cb = "notify"
    /\ d_main' = IF d_main = "sleep" THEN "wake" ELSE d_main
    /\ d_w' = [i \in DemoWorkers |-> IF d_w[i] = "wait" THEN "wake" ELSE d_w[i]]
    /\ d_cb' = "ret"
    /\ UNCHANGED <<handlerv, d_mutex, d_stop>>

\* signal_handler() returns to run()
DemoCallbackReturn ==
    /\ proc = "running"
    /\ w_pc = "incb" /\ w_cb = DemoCb /\ d_cb = "ret"
    /\ w_pc' = "loop"
    /\ w_cb' = NoCb
    /\ d_cb' = "none"
    /\ UNCHANGED <<dead, shared, termv, sigs, w_sig, w_immediate, local_set,
                   stop_pc, history, extra0, failRun, prio, d_main, d_w,
                   d_mutex, d_stop>>

\* --------------------------------------- SignalHandler::signalToString ---
\* the host calls signalToString(q_sig)
signalToStringCall ==
    /\ proc = "running"
    /\ q_calls < MaxNameCalls
    /\ q_calls' = q_calls + 1
    /\ q_prev' = q_ret
    /\ q_ret' = signalToString(q_sig)
    /\ UNCHANGED <<dead, shared, termv, workerv, sigs, stop_pc, history,
                   ttyAtStart, dtor_pc, drops, delivLog, bs_ret, bs_outcome,
                   q_sig, failRun, prio, demov>>

\* ------------------------------------------------------ specification ---
\* every operation but block_signals()
NextOthers ==
    \/ \E cb \in Callbacks \cup {NoCb} : setCallback(cb)
    \/ setCallbackDone
    \/ start
    \/ \E s \in EnvSignals : Deliver(s)
    \/ WorkerBuildSet
    \/ WorkerLoopTest
    \/ \E s \in MapSignals : WorkerWait(s)
    \/ WorkerWaitFail
    \/ WorkerClassify
    \/ \E tst \in CallbackReads, cb \in CallbackReads : WorkerDispatch(tst, cb)
    \/ CallbackReturn
    \/ WorkerExit
    \/ \E t \in Threads : StopCheck(t)
    \/ \E t \in Threads : StopStore(t)
    \/ \E t \in Threads : StopKill(t)
    \/ \E t \in Threads : StopJoin(t)
    \/ StopJoining("main")
    \/ \E t \in Threads : StopRestore(t)
    \/ Destroy
    \/ DestroyStopCheck
    \/ DestroyMembers

Next ==
    \/ block_signals
    \/ NextOthers

Spec == Init /\ [][Next]_vars

\* the program with a sigemptyset() that may fail in start() and in run()
\* (without the destructor; the signal from outside is SIGINT)
NextLibFail ==
    \/ block_signals
    \/ \E cb \in Callbacks \cup {NoCb} : setCallback(cb)
    \/ setCallbackDone
    \/ \E eOk \in BOOLEAN : start_lib(eOk)
    \/ \E s \in BurstSignals : Deliver(s)
    \/ \E eOk \in BOOLEAN : WorkerBuildSet_lib(eOk)
    \/ WorkerLoopTest
    \/ \E s \in MapSignals : WorkerWait(s)
    \/ WorkerWaitFail
    \/ WorkerClassify
    \/ \E tst \in CallbackReads, cb \in CallbackReads : WorkerDispatch(tst, cb)
    \/ CallbackReturn
    \/ WorkerExit
    \/ \E t \in Threads : StopCheck(t)
    \/ \E t \in Threads : StopStore(t)
    \/ \E t \in Threads : StopKill(t)
    \/ StopKillNoThread("main")
    \/ \E t \in Threads : StopJoin(t)
    \/ StopJoining("main")
    \/ \E t \in Threads : StopRestore(t)

SpecLibFail == Init /\ [][NextLibFail]_vars

\* the program of a host that never calls block_signals()
SpecNoBlock == Init /\ [][NextOthers]_vars

\* the program (without the destructor; the signal from outside is SIGINT)
\* with a further thread of the host that calls stop() too, once
NextTwoCallers ==
    \/ block_signals
    \/ \E cb \in Callbacks \cup {NoCb} : setCallback(cb)
    \/ setCallbackDone
    \/ start
    \/ \E s \in BurstSignals : Deliver(s)
    \/ WorkerBuildSet
    \/ WorkerLoopTest
    \/ \E s \in MapSignals : WorkerWait(s)
    \/ WorkerWaitFail
    \/ WorkerClassify
    \/ \E tst \in CallbackReads, cb \in CallbackReads : WorkerDispatch(tst, cb)
    \/ CallbackReturn
    \/ WorkerExit
    \/ \E t \in Threads : StopCheck(t)
    \/ \E t \in Threads : StopStore(t)
    \/ \E t \in Threads : StopKill(t)
    \/ \E t \in Threads : StopJoin(t)
    \/ StopJoining("main")
    \/ \E t \in Threads : StopRestore(t)
    \/ (stopCalls["aux"] = 0 /\ StopCheck("aux"))
    \/ StopStore("aux")
    \/ StopKill("aux")
    \/ StopJoin("aux")
    \/ StopJoining("aux")
    \/ StopRestore("aux")

SpecTwoCallers == Init /\ [][NextTwoCallers]_vars

\* the program under a burst of signals from outside
NextBurst ==
    \/ block_signals
    \/ \E cb \in Callbacks \cup {NoCb} : setCallback(cb)
    \/ setCallbackDone
    \/ start
    \/ \E s \in BurstSignals : DeliverBurst(s)
    \/ WorkerBuildSet
    \/ WorkerLoopTest
    \/ \E s \in MapSignals : WorkerWait(s)
    \/ WorkerWaitFail
    \/ WorkerClassify
    \/ \E tst \in CallbackReads, cb \in CallbackReads : WorkerDispatch(tst, cb)
    \/ CallbackReturn
    \/ WorkerExit
    \/ \E t \in Threads : StopCheck(t)
    \/ \E t \in Threads : StopStore(t)
    \/ \E t \in Threads : StopKill(t)
    \/ \E t \in Threads : StopJoin(t)
    \/ StopJoining("main")
    \/ \E t \in Threads : StopRestore(t)

SpecBurst == Init /\ [][NextBurst]_vars

\* the program with the results of the library calls of block_signals() as
\* inputs, and what the call returned recorded
NextMask ==
    \/ \E eOk \in BOOLEAN, addFail \in AddFailures, mOk \in BOOLEAN :
         block_signals_lib(eOk, addFail, mOk)
    \/ NextOthers

SpecMask == Init /\ [][NextMask]_vars

\* the demonstration program: main(), the worker of the handler with the
\* callback signal_handler(), the num_workers demo workers, and SIGINT sent
\* from outside
DemoMain ==
    \/ DemoBlockSignals
    \/ DemoSetCallback
    \/ setCallbackDone
    \/ DemoStart
    \/ DemoSetPriority
    \/ DemoSpawn
    \/ DemoMainWait
    \/ DemoStop
    \/ StopStore("main")
    \/ StopKill("main")
    \/ StopJoin("main")
    \/ StopJoining("main")
    \/ StopRestore("main")
    \/ DemoJoinWorkers

DemoHandlerWorker ==
    \/ WorkerBuildSet
    \/ WorkerLoopTest
    \/ \E s \in MapSignals : WorkerWait(s)
    \/ WorkerClassify
    \/ \E tst \in CallbackReads, cb \in CallbackReads : WorkerDispatch(tst, cb)
    \/ DemoCbLock
    \/ DemoCbStore
    \/ DemoCbNotify
    \/ DemoCallbackReturn
    \/ WorkerExit

DemoWorker(i) ==
    \/ DemoWorkerLock(i)
    \/ DemoWorkerTest(i)
    \/ DemoWorkerTimeout(i)

NextDemo ==
    \/ DemoMain
    \/ DemoHandlerWorker
    \/ \E i \in DemoWorkers : DemoWorker(i)
    \/ \E s \in BurstSignals : Deliver(s)

\* fair scheduling: every thread that can take a step again and again
\* takes one (a thread that waits for cv_mutex gets it in the end)
SpecDemo ==
    /\ Init /\ [][NextDemo]_vars
    /\ SF_vars(DemoMain)
    /\ SF_vars(DemoHandlerWorker)
    /\ \A i \in DemoWorkers : SF_vars(DemoWorker(i))

\* the program with the owner's calls of setPriority() (no destructor, no
\* callback set; the signal from outside is SIGINT)
NextPriority ==
    \/ \E sp \in Policies, pr \in Priorities, ok \in BOOLEAN : setPriority(sp, pr, ok)
    \/ block_signals
    \/ start
    \/ \E s \in BurstSignals : Deliver(s)
    \/ WorkerBuildSet
    \/ WorkerLoopTest
    \/ \E s \in MapSignals : WorkerWait(s)
    \/ WorkerClassify
    \/ \E tst \in CallbackReads, cb \in CallbackReads : WorkerDispatch(tst, cb)
    \/ WorkerExit
    \/ StopCheck("main")
    \/ StopStore("main")
    \/ StopKill("main")
    \/ StopJoin("main")
    \/ StopJoining("main")
    \/ StopRestore("main")

SpecPriority == Init /\ [][NextPriority]_vars

\* the program with a wait that may fail several times in a row (without
\* the destructor; the signal from outside is SIGINT)
NextWaitFail ==
    \/ block_signals
    \/ \E cb \in Callbacks \cup {NoCb} : setCallback(cb)
    \/ setCallbackDone
    \/ start
    \/ \E s \in BurstSignals : Deliver(s)
    \/ WorkerBuildSet
    \/ WorkerLoopTest
    \/ \E s \in MapSignals : WorkerWait(s)
    \/ WorkerWaitFail
    \/ WorkerWaitFailAgain
    \/ WorkerClassify
    \/ \E tst \in CallbackReads, cb \in CallbackReads : WorkerDispatch(tst, cb)
    \/ CallbackReturn
    \/ WorkerExit
    \/ \E t \in Threads : StopCheck(t)
    \/ \E t \in Threads : StopStore(t)
    \/ \E t \in Threads : StopKill(t)
    \/ \E t \in Threads : StopJoin(t)
    \/ StopJoining("main")
    \/ \E t \in Threads : StopRestore(t)

SpecWaitFail == Init /\ [][NextWaitFail]_vars

\* the dispatcher, started and never stopped, with every signal of the map
\* and the wake signal sent from outside
NextClassify ==
    \/ block_signals
    \/ \E cb \in Callbacks \cup {NoCb} : setCallback(cb)
    \/ setCallbackDone
    \/ start
    \/ \E s \in AllSignals : Deliver(s)
    \/ WorkerBuildSet
    \/ WorkerLoopTest
    \/ \E s \in MapSignals : WorkerWait(s)
    \/ WorkerWaitFail
    \/ WorkerClassify
    \/ \E tst \in CallbackReads, cb \in CallbackReads : WorkerDispatch(tst, cb)
    \/ CallbackReturn

SpecClassify == Init /\ [][NextClassify]_vars

\* the host calls signalToString() with one argument, before and after it
\* sets up the dispatcher
NextNames ==
    \/ signalToStringCall
    \/ block_signals
    \/ \E cb \in Callbacks \cup {NoCb} : setCallback(cb)
    \/ setCallbackDone
    \/ start

SpecNames == InitNames /\ [][NextNames]_vars

\* ------------------------------------------------------- type check -----
TypeOK ==
    /\ proc \in {"running", "exited", "terminated", "killed", "crashed"}
    /\ running \in BOOLEAN /\ stop_requested \in BOOLEAN
    /\ termios_saved \in BOOLEAN /\ joinable \in BOOLEAN
    /\ original_termios \in (SUBSET TermFlags) \cup {Uninit}
    /\ tty \in SUBSET TermFlags
    /\ failRun \in 0..MaxFailRun
    /\ sp_ret \in {"none", "true", "false"} /\ spCalls \in 0..MaxPrioCalls
    /\ w_sched \in {DefaultSched} \cup (Policies \X Priorities)
    /\ q_sig \in QuerySignals /\ q_calls \in 0..MaxNameCalls
    /\ q_ret \in STRING /\ q_prev \in STRING
    /\ d_main \in {"init", "wait", "sleep", "wake", "stop", "returned"}
    /\ d_w \in [DemoWorkers -> {"none", "lock", "test", "wait", "wake", "done"}]
    /\ d_mutex \in {MutexFree, MutexCb} \cup DemoWorkers
    /\ d_stop \in BOOLEAN
    /\ d_cb \in {"none", "locked", "notify", "ret"}
    /\ callback \in Callbacks \cup {NoCb, DemoCb}
    /\ cb_writing \in Callbacks \cup {NoCb, DemoCb, NotWriting}
    /\ w_pc \in {"none", "spawned", "loop", "wait", "woke", "dispatch",
                 "incb", "cbret", "exit", "done"}
    /\ dtor_pc \in {"none", "stop", "stopping", "members", "done"}
    /\ \A t \in Callers :
         stop_pc[t] \in {"idle", "store", "kill", "join", "joining", "restore"}

\* =========================================================== claims =====
\* the classification the specification states for the registry
ClaimNonCritical == {SIGINT, SIGTERM, SIGQUIT, SIGHUP}
ClaimCritical    == {SIGSEGV, SIGBUS, SIGFPE, SIGILL, SIGABRT}
ClaimRegistered  == ClaimNonCritical \cup ClaimCritical

\* a callback is registered, none is registered (no assignment under way)
CallbackSet  == callback \in Callbacks /\ cb_writing = NotWriting
NoCallback   == callback = NoCb /\ cb_writing = NotWriting

\* the worker takes the step of run() that follows position p
WorkerLeaves(p) == proc = "running" /\ w_pc = p /\ w_pc' # p

\* C1: a registered signal (not the wake signal) that the wait returns while
\* no stop is requested reaches the dispatch, and with a callback set the
\* dispatch invokes that callback exactly once with (signal, flag), the flag
\* being FALSE for SIGINT, SIGTERM, SIGQUIT, SIGHUP and TRUE for SIGSEGV,
\* SIGBUS, SIGFPE, SIGILL, SIGABRT; nothing else invokes the callback.
C1_DispatchOnce ==
    /\ \A s \in ClaimRegistered :
         s \in DOMAIN signal_map /\ signal_map[s][2] = (s \in ClaimCritical)
    /\ [][ (WorkerLeaves("woke") /\ ~stop_requested
              /\ w_sig \in ClaimRegistered /\ w_sig # SIGUSR1)
           => (w_pc' = "dispatch" /\ w_sig' = w_sig) ]_vars
    /\ [][ (WorkerLeaves("dispatch") /\ CallbackSet)
           => invocations' = Append(invocations,
                                    <<callback, w_sig, w_sig \in ClaimCritical>>) ]_vars
    /\ [][ invocations' # invocations
           => (w_pc = "dispatch"
               /\ Len(invocations') = Len(invocations) + 1) ]_vars

\* C1 witness: the callback has been invoked for a fatal and for a non-fatal
\* signal
C1_Witness ==
    /\ \E i \in 1..Len(invocations) : invocations[i] = <<"cbLog", SIGSEGV, TRUE>>
    /\ \E i \in 1..Len(invocations) : invocations[i] = <<"cbLog", SIGINT, FALSE>>

\* the results of the owner's stop() calls, in call order
MainRets == SelectSeq(stopRets, LAMBDA r : r[1] = "main")

\* C2: sequential stop() calls of the owner on a started dispatcher (none
\* made before start(), none made by the callback): the first call is not
\* cut short by its own wake signal and returns TRUE, every later one returns
\* FALSE, the wake signal is sent once and the worker is joined exactly once
\* when the first call has returned.
C2_StopIdempotent ==
    (startCalls >= 1 /\ stopCalls["worker"] = 0
       /\ (\A i \in 1..Len(MainRets) : MainRets[i][3] >= 1))
    => /\ ~(stop_pc["main"] # "idle" /\ proc = "killed" /\ killSig = SIGUSR1)
       /\ \A i \in 1..Len(MainRets) : MainRets[i][2] = (i = 1)
       /\ wakeSent <= 1
       /\ joinCount <= 1
       /\ (Len(MainRets) >= 1 => joinCount = 1)

\* C2 without its first conjunct: what holds of the stop() calls that return
C2_ReturningCalls ==
    (startCalls >= 1 /\ stopCalls["worker"] = 0
       /\ (\A i \in 1..Len(MainRets) : MainRets[i][3] >= 1))
    => /\ \A i \in 1..Len(MainRets) : MainRets[i][2] = (i = 1)
       /\ wakeSent <= 1
       /\ joinCount <= 1
       /\ (Len(MainRets) >= 1 => joinCount = 1)

\* C3: the wake signal that stop() sends from the owning thread never ends
\* the process.
C3_WakeDoesNotKill ==
    ~(proc = "killed" /\ killSig = SIGUSR1 /\ stop_pc["main"] = "join")

\* C4: once start() has run, the wake signal SIGUSR1 is a key of the
\* registry, flagged non-fatal, and is in the set start() blocks, in the
\* mask of the owner and the worker, and in the worker's wait set.
C4_WakeSignalRegistered ==
    startCalls >= 1
    => /\ SIGUSR1 \in DOMAIN signal_map
       /\ ~signal_map[SIGUSR1][2]
       /\ SIGUSR1 \in signal_set
       /\ SIGUSR1 \in sigmask["main"]
       /\ (WorkerAlive => SIGUSR1 \in sigmask["worker"])
       /\ (w_pc \in {"loop", "wait", "woke", "dispatch", "incb", "cbret"}
             => SIGUSR1 \in local_set)

\* C5: no callback invocation carries the wake signal SIGUSR1 or an
\* identifier outside the registry (the error value of a failed wait
\* included); a wake-up with such a value invokes nothing and, unless a stop
\* is requested, takes the worker back to the loop test and from there to
\* the wait.
C5_WakeAndUnknownFiltered ==
    /\ [](\A i \in 1..Len(invocations) :
            invocations[i][2] # SIGUSR1 /\ invocations[i][2] \in ClaimRegistered)
    /\ [][ (WorkerLeaves("woke")
              /\ (w_sig = SIGUSR1 \/ w_sig \notin ClaimRegistered))
           => /\ invocations' = invocations
              /\ w_pc' = IF stop_requested THEN "exit" ELSE "loop" ]_vars
    /\ [][ (WorkerLeaves("loop") /\ running /\ ~stop_requested)
           => w_pc' = "wait" ]_vars

\* C5 witness: a failed wait was discarded and the worker waits again
C5_Witness ==
    /\ w_pc = "wait" /\ w_sig = WaitError /\ waitFails >= 1
    /\ invocations = <<>> /\ CallbackSet /\ proc = "running"

\* C6: a fatal signal at the dispatch with no callback registered ends the
\* process at that step: the worker takes no other step from there, no
\* callback is invoked, and the terminal keeps the settings it had (nothing
\* restores them once the process has exited).
C6_FatalWithoutCallbackExits ==
    /\ [][ (proc = "running" /\ w_pc = "dispatch" /\ NoCallback
              /\ w_sig \in ClaimCritical)
           => /\ w_pc' = "dispatch"
              /\ invocations' = invocations
              /\ ((proc' = "exited") => (tty' = tty /\ stopRets' = stopRets)) ]_vars
    /\ [][ (proc' = "exited" /\ proc # "exited")
           => (w_pc = "dispatch" /\ w_sig \in ClaimCritical
               /\ NoCb \in {callback, cb_writing}) ]_vars
    /\ [][ proc = "exited" => UNCHANGED vars ]_vars

\* C6 witness: the process has exited on SIGSEGV with the terminal still as
\* start() left it
C6_Witness ==
    /\ proc = "exited" /\ w_sig = SIGSEGV /\ NoCallback
    /\ ~stop_requested /\ invocations = <<>>
    /\ termios_saved /\ "ECHOCTL" \in original_termios /\ "ECHOCTL" \notin tty

\* C7: stop() on a dispatcher that was never started returns FALSE in one
\* step: no wake signal, no join, stop_requested not set, terminal untouched.
C7_StopBeforeStart ==
    /\ [][ (startCalls = 0 /\ stopCalls' # stopCalls)
           => /\ stopRets' = Append(stopRets, <<"main", FALSE, 0>>)
              /\ stop_pc' = stop_pc
              /\ stop_requested' = stop_requested
              /\ UNCHANGED <<wakeSent, joinCount, joinable, tty, running>> ]_vars
    /\ [](startCalls = 0
          => (wakeSent = 0 /\ joinCount = 0 /\ ~stop_requested
              /\ stop_pc["main"] = "idle"))

\* C7 witness: stop() has returned on a dispatcher that was never started
C7_Witness == startCalls = 0 /\ Len(stopRets) >= 1

\* C8: a start() on an instance that was started before (stopped since or
\* not) is rejected: no thread is created, the terminal and its snapshot are
\* left alone, the lifecycle flags keep their values and the process lives.
C8_SecondStartRejected ==
    [][ (startCalls >= 1 /\ startCalls' # startCalls)
        => /\ UNCHANGED <<spawnCount, tty, original_termios, termios_saved>>
           /\ UNCHANGED <<running, stop_requested, w_pc, proc>> ]_vars

\* some stop() call has returned TRUE
StopCompleted == \E i \in 1..Len(stopRets) : stopRets[i][2]

\* C9: stop_requested is never reset; once it is set the worker never
\* enters the wait again; and after a stop() has completed the instance is
\* never in the state running with a worker waiting, start() or not.
C9_NoReturnToRunning ==
    /\ [][ stop_requested => stop_requested' ]_vars
    /\ [][ stop_requested => ~(w_pc' = "wait" /\ w_pc # "wait") ]_vars
    /\ [](StopCompleted => ~(running /\ w_pc = "wait"))

\* C9 witness: start() was called again after a completed stop(), and the
\* second worker has left without waiting
C9_Witness ==
    /\ StopCompleted /\ startCalls = 2 /\ spawnCount = 2
    /\ w_pc = "done" /\ proc = "running"

\* C10: with cbStop registered (no assignment under way), the stop() that
\* the callback calls on the worker thread does not end the process, neither
\* by the wake signal it sends to its own thread nor by joining its own
\* thread.
C10_StopFromCallbackSafe ==
    (callback = "cbStop" /\ cb_writing = NotWriting /\ w_cb = "cbStop")
    => /\ ~(stop_pc["worker"] = "join" /\ proc = "killed" /\ killSig = SIGUSR1)
       /\ ~(stop_pc["worker"] = "restore" /\ proc = "terminated")

\* the stop() calls that returned TRUE
TrueRets == {i \in 1..Len(stopRets) : stopRets[i][2]}

\* C11: one stop() call of the owner and one of a further thread on a
\* dispatcher started once (neither made before start(), none made by the
\* callback), in any interleaving: the wake signal is sent at most once, at
\* most one of the two calls returns TRUE, when both have returned exactly
\* one has, the worker is joined at most once and no caller's join throws.
C11_ConcurrentStopRaceFree ==
    (startCalls = 1 /\ stopCalls["worker"] = 0
       /\ stopCalls["main"] <= 1 /\ stopCalls["aux"] <= 1
       /\ (\A i \in 1..Len(stopRets) : stopRets[i][3] = 1))
    => /\ wakeSent <= 1
       /\ Cardinality(TrueRets) <= 1
       /\ (Len(stopRets) = 2 => Cardinality(TrueRets) = 1)
       /\ joinCount <= 1
       /\ proc # "terminated"

\* the values a dispatch may act on: the callback as it was before a
\* setCallback() under way, or as that call will leave it
WholeCallbacks == {callback, cb_writing} \ {NotWriting}

\* C12: every dispatch, one that overlaps a setCallback() included, does
\* what the dispatch does with one whole value of the callback, the old one
\* or the new one: that callable is invoked once with (signal, flag) and the
\* process lives, or (empty callback, signal not fatal) nothing is invoked
\* and the worker goes back to the loop.
C12_SetCallbackAtomic ==
    [][ WorkerLeaves("dispatch")
        => \E c \in WholeCallbacks :
             IF c # NoCb
               THEN /\ invocations' = Append(invocations,
                                             <<c, w_sig, w_immediate>>)
                    /\ w_cb' = c
                    /\ proc' = "running"
               ELSE /\ invocations' = invocations
                    /\ ~w_immediate
                    /\ w_pc' = "loop"
                    /\ proc' = "running" ]_vars

\* the last stop() call that returned, if it returned TRUE and no start()
\* was called since
LastStopSucceeded ==
    /\ Len(stopRets) >= 1
    /\ stopRets[Len(stopRets)][2]
    /\ stopRets[Len(stopRets)][3] = startCalls

\* C13: whatever the terminal settings at construction (and STDIN a
\* terminal or not), when a stop() that followed a start() has returned TRUE
\* the settings of STDIN are those in force just before that start().
C13_TerminalRoundTrip ==
    /\ [][ (Len(stopRets') = Len(stopRets) + 1 /\ stopRets'[Len(stopRets')][2])
           => tty' = ttyAtStart ]_vars
    /\ [](LastStopSucceeded => tty = ttyAtStart)

\* C13 witness: stop() has returned TRUE on a terminal that had ECHOCTL (and
\* ICANON) set before start(), start() cleared ECHOCTL, and it is set again
C13_Witness ==
    /\ LastStopSucceeded /\ stdin_tty /\ proc = "running"
    /\ ttyAtStart = {"ECHOCTL", "ICANON"} /\ tty = {"ECHOCTL", "ICANON"}
    /\ termios_saved /\ startCalls = 1

\* the destructor begins
DestroyBegins == dtor_pc = "none" /\ dtor_pc' # "none"

\* C14: the stop() that the destructor performs on a running dispatcher is
\* not cut short by its own wake signal, and when the destruction is over
\* the worker thread has been joined (the process was not ended for a
\* std::thread left joinable); the destructor of a dispatcher that was never
\* started, or whose last stop() succeeded, goes straight to the
\* destruction of the members and the owner performs no step of stop().
C14_DestructorStops ==
    /\ [] ~(dtor_pc = "stopping" /\ proc = "killed" /\ killSig = SIGUSR1)
    /\ [] (dtor_pc = "done" => (~joinable /\ proc # "terminated"))
    /\ [][ (DestroyBegins /\ (startCalls = 0 \/ LastStopSucceeded))
           => (dtor_pc' = "members" /\ ~joinable) ]_vars
    /\ [][ dtor_pc = "members"
           => (stop_pc'["main"] = "idle"
               /\ stopCalls'["main"] = stopCalls["main"]) ]_vars

DuringInv(k, s) == {i \in 1..Len(delivLog) : delivLog[i] = <<s, k, TRUE>>}
AfterInv(k, s) ==
    {i \in 1..Len(delivLog) :
        /\ delivLog[i][1] = s
        /\ (delivLog[i][2] > k \/ (delivLog[i][2] = k /\ ~delivLog[i][3]))}
LaterInvs(k, s) == {j \in (k+1)..Len(invocations) : invocations[j][2] = s}

C17_SingleWorker == spawnCount <= 1

\* the status the specification has block_signals() return for an outcome
ClaimStatus(outcome) ==
    CASE outcome = "ok"      -> "SUCCESS"
      [] outcome = "partial" -> "PARTIALLY_BLOCKED"
      [] outcome = "failed"  -> "FAILURE"

\* C18: block_signals() returns to its caller a status that tells its
\* outcome (all signals blocked, some not added to the set, nothing
\* blocked), and the call does not end the process by an exception.
C18_MaskingReportsStatus ==
    /\ [](bs_outcome # "none" => bs_ret = ClaimStatus(bs_outcome))
    /\ [][ bs_outcome' # bs_outcome => proc' = "running" ]_vars

\* the owning thread blocks every signal of the registry
OwnerBlocksAll == MapSignals \subseteq sigmask["main"]

ClaimNames ==
    (SIGINT  :> "SIGINT")  @@ (SIGTERM :> "SIGTERM") @@
    (SIGQUIT :> "SIGQUIT") @@ (SIGHUP  :> "SIGHUP")  @@
    (SIGSEGV :> "SIGSEGV") @@ (SIGBUS  :> "SIGBUS")  @@
    (SIGFPE  :> "SIGFPE")  @@ (SIGILL  :> "SIGILL")  @@
    (SIGABRT :> "SIGABRT")

\* C20: signalToString(s) returns the display name of s, which is not
\* empty, for every s of the registry and "UNKNOWN" for every other s; a
\* second call returns what the first returned; and a call changes nothing
\* of the dispatcher, whose state does not change the result.
C20_SignalNames ==
    /\ [](q_calls >= 1
          => IF q_sig \in MapSignals
               THEN q_ret = ClaimNames[q_sig] /\ q_ret # ""
               ELSE q_ret = "UNKNOWN")
    /\ [](q_calls >= 2 => q_prev = q_ret)
    /\ [][ q_calls' # q_calls
           => UNCHANGED <<dead, shared, termv, workerv, sigs, stop_pc,
                          dtor_pc>> ]_vars

\* C20 witness: the name of SIGTERM was asked twice on a started dispatcher
C20_Witness ==
    /\ q_sig = SIGTERM /\ q_calls = 2 /\ q_ret = "SIGTERM" /\ q_prev = "SIGTERM"
    /\ startCalls = 1

\* C20 witness for a signal outside the registry is the same state with
\* q_sig = SIGUSR1, where q_ret = "UNKNOWN"

C22_WaitRetriedOnce ==
    /\ [][ (WorkerLeaves("woke") /\ w_sig = WaitError /\ failRun = 1
              /\ ~stop_requested)
           => w_pc' = "loop" ]_vars
    /\ [][ (WorkerLeaves("woke") /\ w_sig = WaitError /\ failRun >= 2)
           => w_pc' = "exit" ]_vars
    /\ [](w_pc = "wait" => failRun < 2)

\* C23: when stop_requested is set at the test that follows the wait, the
\* worker leaves the loop whatever the wait returned: nothing is invoked or
\* dropped at the dispatch for that signal, the signal is not made pending
\* again, and the next step of the worker is the end of run().
C23_WokenSignalDiscarded ==
    /\ [][ (WorkerLeaves("woke") /\ stop_requested)
           => /\ w_pc' = "exit"
              /\ invocations' = invocations
              /\ drops' = drops
              /\ pending' = pending /\ w_pending' = w_pending ]_vars
    /\ [][ WorkerLeaves("exit")
           => (w_pc' = "done" /\ invocations' = invocations) ]_vars

\* C23 witness: the one signal sent, SIGINT, woke the worker, a stop was
\* requested by then, and the worker has left the loop with a callback set
\* and nothing invoked
C23_Witness ==
    /\ proc = "running" /\ w_pc = "exit" /\ w_sig = SIGINT /\ stop_requested
    /\ deliveries = 1 /\ pending = {}
    /\ CallbackSet /\ invocations = <<>> /\ drops = 0

\* C24: the dispatch of a non-fatal registered signal with no callback
\* registered drops the signal: the process goes on, nothing is invoked,
\* the running flag keeps its value and the worker is back at the loop test,
\* from where it waits again while running is set and no stop is requested.
C24_NonFatalDroppedWithoutCallback ==
    /\ [][ (proc = "running" /\ w_pc = "dispatch" /\ NoCallback
              /\ w_sig \in ClaimNonCritical
              /\ (w_pc' # "dispatch" \/ proc' = "exited"))
           => /\ proc' = "running"
              /\ invocations' = invocations
              /\ running' = running
              /\ w_pc' = "loop"
              /\ drops' = drops + 1 ]_vars
    /\ [][ (WorkerLeaves("loop") /\ running /\ ~stop_requested /\ drops >= 1)
           => w_pc' = "wait" ]_vars

\* C24 witness: SIGINT was dropped with no callback set and the worker
\* waits again
C24_Witness ==
    /\ proc = "running" /\ running /\ ~stop_requested
    /\ w_pc = "wait" /\ w_sig = SIGINT /\ drops = 1
    /\ NoCallback /\ invocations = <<>>

\* C25: when a callback returns the worker is at the loop test, whatever
\* the signal was, and from the loop test it waits again unless a stop is
\* requested; the worker is past its loop only when stop_requested is set,
\* running is set while the worker is in its loop, and running is cleared
\* only by the worker at the end of run(), stop_requested being set.
C25_LoopEndsOnlyOnStop ==
    /\ [][ (proc' = "running" /\ InCallback /\ ~InCallback') => w_pc' = "loop" ]_vars
    /\ [][ (WorkerLeaves("loop") /\ ~stop_requested) => w_pc' = "wait" ]_vars
    /\ [](w_pc \in {"exit", "done"} => stop_requested)
    /\ [](w_pc \in {"spawned", "loop", "wait", "woke", "dispatch", "incb", "cbret"}
          => running)
    /\ [][ (running /\ ~running')
           => (stop_requested /\ w_pc = "exit" /\ w_pc' = "done") ]_vars

\* C25 witness: the callback was invoked for the fatal SIGSEGV, has
\* returned, and the worker waits again
C25_Witness ==
    /\ proc = "running" /\ running /\ ~stop_requested /\ w_pc = "wait"
    /\ invocations = << <<"cbLog", SIGSEGV, TRUE>> >>

\* a stop() called by a thread other than the worker has returned TRUE
HostStopSucceeded ==
    \E i \in 1..Len(stopRets) : stopRets[i][2] /\ stopRets[i][1] # "worker"

\* C26: from the return of a successful stop() of a thread other than the
\* worker on, no worker thread is alive, running is FALSE, stop_requested is
\* TRUE, the thread is not joinable, and the callback is not invoked again.
C26_StoppedForGood ==
    /\ [](HostStopSucceeded
          => (~WorkerAlive /\ ~running /\ stop_requested /\ ~joinable))
    /\ [][ HostStopSucceeded => invocations' = invocations ]_vars

\* C27: a stop() of the owning thread never ends the worker in the middle
\* of a callback: the process is not killed by the wake signal while an
\* invocation is in progress, an invocation in progress is left only by its
\* return, and the owner's stop() returns TRUE only when the worker has
\* finished run().
C27_NoStopMidCallback ==
    /\ [](~(InCallback /\ proc = "killed" /\ killSig = SIGUSR1
             /\ stop_pc["main"] # "idle"))
    /\ [][ (InCallback /\ stop_pc["main"] # "idle" /\ ~InCallback')
           => (proc' = "running" /\ w_pc' = "loop") ]_vars
    /\ [][ (Len(stopRets') = Len(stopRets) + 1
              /\ stopRets'[Len(stopRets')][1] = "main"
              /\ stopRets'[Len(stopRets')][2])
           => w_pc = "done" ]_vars

\* C28: stop() sends the wake signal with stop_requested already set; sent
\* to a worker that is waiting, the signal wakes that worker (it is pending
\* for the worker's wait, the process goes on); and a worker woken by the
\* wake signal leaves its loop, never going back to the loop test.
C28_WakeAfterStopRequest ==
    /\ [][ wakeSent' # wakeSent => stop_requested ]_vars
    /\ [][ (wakeSent' # wakeSent /\ w_pc = "wait")
           => (proc' = "running" /\ SIGUSR1 \in w_pending') ]_vars
    /\ [][ (WorkerLeaves("woke") /\ w_sig = SIGUSR1) => w_pc' = "exit" ]_vars

\* C28 without its second conjunct: the order of the two statements of
\* stop() and the worker's treatment of the wake signal
C28_OrderAlone ==
    /\ [][ wakeSent' # wakeSent => stop_requested ]_vars
    /\ [][ (WorkerLeaves("woke") /\ w_sig = SIGUSR1) => w_pc' = "exit" ]_vars
    /\ [](w_sig # SIGUSR1)

\* C29: when tcgetattr() fails in start(), the first start() still creates
\* the worker and the process goes on, termios_saved stays FALSE and the
\* terminal settings are left as they were by start() and by every stop();
\* the dispatch invokes the callback as it does otherwise.
C29_SnapshotFailureNonFatal ==
    /\ [][ (~stdin_tty /\ startCalls = 0 /\ startCalls' = 1)
           => /\ proc' = "running"
              /\ spawnCount' = 1 /\ w_pc' = "spawned" /\ running'
              /\ tty' = tty
              /\ ~termios_saved' ]_vars
    /\ [](~stdin_tty => ~termios_saved)
    /\ [][ ~stdin_tty => tty' = tty ]_vars
    /\ [][ (~stdin_tty /\ WorkerLeaves("dispatch") /\ CallbackSet)
           => invocations' = Append(invocations,
                                    <<callback, w_sig, signal_map[w_sig][2]>>) ]_vars

\* C29 witness: with no snapshot taken, a signal was dispatched to the
\* callback and a stop() has then returned TRUE, the terminal as it was
\* at construction
C29_Witness ==
    /\ ~stdin_tty /\ ~termios_saved /\ startCalls = 1 /\ proc = "running"
    /\ invocations = << <<"cbLog", SIGINT, FALSE>> >>
    /\ LastStopSucceeded /\ tty = ttyAtStart /\ original_termios = Uninit

\* C30: a start() whose tcgetattr() succeeds changes the terminal settings
\* by clearing ECHOCTL and nothing else: every other flag keeps its value,
\* the snapshot holds the settings as they were before the call, ECHOCTL
\* included, and nothing but start() and the end of stop() writes them.
C30_OnlyEchoctlCleared ==
    /\ [][ (stdin_tty /\ startCalls' # startCalls)
           => /\ "ECHOCTL" \notin tty'
              /\ \A f \in TermFlags \ {"ECHOCTL"} : (f \in tty') = (f \in tty)
              /\ termios_saved'
              /\ original_termios' = tty
              /\ ("ECHOCTL" \in original_termios') = ("ECHOCTL" \in tty) ]_vars
    /\ [][ tty' # tty
           => (startCalls' # startCalls \/ stopRets' # stopRets) ]_vars
    /\ [][ original_termios' # original_termios => startCalls' # startCalls ]_vars

\* C30 witness: start() has run on a terminal that had ECHOCTL and ICANON
\* set: ICANON is still set, ECHOCTL is not, the snapshot has both
C30_Witness ==
    /\ stdin_tty /\ startCalls = 1 /\ proc = "running" /\ w_pc = "spawned"
    /\ tty = {"ICANON"} /\ termios_saved
    /\ original_termios = {"ECHOCTL", "ICANON"}

\* C31: a setPriority() called while running is FALSE or the thread is not
\* joinable returns FALSE and leaves the scheduling of the worker alone; so
\* does every call made before start() or after a completed stop() that no
\* start() has followed; a call returns TRUE only with a started worker
\* alive; and nothing else changes the scheduling of a thread that exists.
C31_SetPriorityNeedsWorker ==
    /\ [][ (spCalls' # spCalls /\ (~running \/ ~joinable))
           => (sp_ret' = "false" /\ w_sched' = w_sched) ]_vars
    /\ [][ (spCalls' # spCalls /\ (startCalls = 0 \/ LastStopSucceeded))
           => (sp_ret' = "false" /\ w_sched' = w_sched) ]_vars
    /\ [][ (spCalls' # spCalls /\ sp_ret' = "true")
           => (startCalls >= 1 /\ WorkerAlive /\ running /\ joinable) ]_vars
    /\ [][ w_sched' # w_sched
           => (spCalls' # spCalls /\ sp_ret' = "true") \/ startCalls' # startCalls ]_vars

\* C31 witness: a first call, made with the worker alive, returned TRUE and
\* set SCHED_RR 10; the next call, made after a completed stop(), has
\* returned FALSE
C31_Witness ==
    /\ proc = "running" /\ spCalls = 2 /\ sp_ret = "false"
    /\ w_sched = <<"SCHED_RR", 10>>
    /\ LastStopSucceeded /\ ~running /\ ~joinable

\* the demo callback has been invoked for a registered signal
DemoDispatched ==
    \E i \in 1..Len(invocations) :
        invocations[i][1] = DemoCb /\ invocations[i][2] \in ClaimRegistered

\* C32: in the demonstration program under fair scheduling, once a
\* registered signal has been dispatched to the callback the flag gets set
\* (under cv_mutex), main() leaves its wait and calls stop(), the four
\* workers finish, and main() returns 0 with the process alive till then.
C32_DemoReturnsZero ==
    /\ DemoDispatched ~> d_stop
    /\ DemoDispatched ~> (d_main = "returned" /\ proc = "running"
                             /\ \A i \in DemoWorkers : d_w[i] = "done")

\* C33: stop_requested only ever goes from FALSE to TRUE, and only by the
\* store of stop(); a second worker (one spawned by a start() after the
\* first was joined by a completed stop()) goes from its first loop test to
\* the end of run(): it never waits, and nothing is dispatched or dropped
\* while it exists.
C33_StopRequestMonotone ==
    /\ [][ stop_requested' # stop_requested
           => (~stop_requested /\ stop_requested'
               /\ \E t \in Callers : stop_pc[t] = "store" /\ stop_pc'[t] = "kill") ]_vars
    /\ [](spawnCount >= 2 => (StopCompleted /\ stop_requested))
    /\ [][ (spawnCount >= 2 /\ WorkerLeaves("loop")) => w_pc' = "exit" ]_vars
    /\ [](spawnCount >= 2
          => w_pc \in {"spawned", "loop", "exit", "done"})
    /\ [][ spawnCount >= 2 => (invocations' = invocations /\ drops' = drops) ]_vars

\* C33 witness: the second worker has left the loop at its first test while
\* a registered signal is pending
C33_Witness ==
    /\ proc = "running" /\ spawnCount = 2 /\ startCalls = 2
    /\ w_pc = "exit" /\ stop_requested /\ running
    /\ SIGINT \in pending

WorkerInLoop ==
    w_pc \in {"spawned", "loop", "wait", "woke", "dispatch", "incb", "cbret"}

\* C35: once start() has returned, running set with no stop requested
\* means that a worker exists, joinable and not past its loop; and a stop()
\* that passes its test of the flags has a live, joinable thread to wake
\* and join.
C35_RunningMeansWorker ==
    /\ []((proc = "running" /\ startCalls >= 1 /\ running /\ ~stop_requested)
          => (WorkerInLoop /\ joinable))
    /\ [][ (\E t \in Callers : stop_pc[t] = "idle" /\ stop_pc'[t] = "store")
           => (WorkerAlive /\ joinable) ]_vars

\* C36: no step of stop() changes a signal mask; after a stop() has
\* returned TRUE every registry signal is blocked in every live thread; and
\* a signal sent to the process from then on becomes pending and stays
\* pending: the process is not ended by it and the callback is not invoked.
C36_StopKeepsMask ==
    /\ [][ stop_pc' # stop_pc => sigmask' = sigmask ]_vars
    /\ [](StopCompleted
          => \A t \in LiveThreads : MapSignals \subseteq sigmask[t])
    /\ [][ (StopCompleted /\ deliveries' # deliveries)
           => /\ proc' = "running"
              /\ pending \subseteq pending' /\ pending' # {}
              /\ invocations' = invocations ]_vars
    /\ [][ StopCompleted
           => (pending \subseteq pending' /\ invocations' = invocations) ]_vars

\* C36 witness: the owner's stop() has returned TRUE, both signals of the
\* environment were sent after it, and both are pending with no invocation
C36_Witness ==
    /\ proc = "running" /\ stop_pc["main"] = "idle"
    /\ Len(stopRets) = 1 /\ stopRets[1] = <<"main", TRUE, 1>>
    /\ deliveries = 2 /\ pending = EnvSignals
    /\ invocations = << >>
    /\ MapSignals \subseteq sigmask["main"]

=============================================================================
